---------------------------- MODULE Spec2Model ----------------------------
(***************************************************************************)
(* Model of metator/network.py: the contig registry (create_contig_data),  *)
(* the pair collector (precompute_network), the sort-and-aggregate pass    *)
(* (compute_network, normalize_pair) and the bin contraction (merge_nodes  *)
(* as driven by contigs_bin_network).                                      *)
(*                                                                         *)
(* A Python exception is modelled by pc = "failed" and the exception's     *)
(* name in `error`; whatever the code had written before raising stays.    *)
(***************************************************************************)
EXTENDS Integers, Sequences, FiniteSets, TLC

(***************************************************************************)
(* Bounds of the model.                                                    *)
(***************************************************************************)
MaxRecords == 2        \* alignment records read over all alignment files
MaxAlign == 2          \* alignment files given to alignment_to_contacts
MaxNode == 3           \* contig ids 1..MaxNode in the network file read for binning
MaxLines == 2          \* lines of that network file
MaxWeight == 2         \* weights 1..MaxWeight on its lines
MaxComm == 2           \* community ids 1..MaxComm in the contigs data file
MaxCov == 1            \* coverages 0..MaxCov given to normalize_pair alone
MaxLength == 1         \* contig lengths up to MaxLength given to it
MaxSites == 1          \* restriction sites 0..MaxSites of its contigs
MaxOcc == 2            \* raw counts and hits 1..MaxOcc given to it
MaxSize == 2           \* community sizes and bin_size are in 1..MaxSize

(***************************************************************************)
(* Contig names.  Names are strings; NameOrder lists them in the order the *)
(* sort of the pre-network file compares them, so Rank is a name's place   *)
(* in that order.  It is unrelated to the ids the registry gives.          *)
(***************************************************************************)
NameOrder == <<"a", "b", "c">>
Names == {NameOrder[i] : i \in 1..Len(NameOrder)}
Rank(name) == CHOOSE i \in 1..Len(NameOrder) : NameOrder[i] = name

\* The "-" the registry stores for a field that is not set.
Unset == -1

\* len(contig.seq) and len(re.findall(pattern, str(contig.seq))) of the
\* contig called `name`: what the sequence parser and the pattern matcher
\* return (both outside this file).
SeqLen(name) == 2 * Rank(name)
Sites(name) == Rank(name) - 1

\* The assemblies: one or more contigs with distinct names, in any order.
Assemblies ==
    {s \in UNION {[1..n -> Names] : n \in 1..Len(NameOrder)} :
        \A i, j \in DOMAIN s : i /= j => s[i] /= s[j]}

\* A depth file: its data rows (the header line is read and dropped at
\* 397).  Row k holds a length (column 2) and a mean coverage (column 3).
DepthRow(k) == [length |-> 3 * k, coverage |-> (k - 1) % 2]
DepthFiles(n) == {[k \in 1..d |-> DepthRow(k)] : d \in (n - 1)..(n + 1)}

Normalizations ==
    {"None", "abundance", "length", "RS", "RS_length", "empirical_hit",
     "theoritical_hit", "unknown"}

VARIABLES
    pc,              \* where alignment_to_contacts is
    error,           \* the exception that ended the run, or "none"
    assembly,        \* the contigs the assembly provider yielded, in order
    contig_data,     \* name -> [id, length, hit, coverage, RS]
    hit_data,        \* name -> hits per alignment file (nb_alignment > 1)
    nb_alignment,    \* len(aligment_files)
    self_contacts,   \* precompute_network's flag
    file_i,          \* index i of the alignment file being read (0-based)
    all_contacts, inter_contacts,
    all_contacts_temp, inter_contacts_temp,
    records,         \* the alignment records read so far, in order
    pre_net,         \* the lines of the pre-network file
    normalization,   \* compute_network's strategy name
    net_created,     \* the network file exists
    net,             \* the lines of the network file
    bin_pc,          \* where contigs_bin_network is
    bin_error,       \* the exception that ended it, or "none"
    lines_read,      \* lines of the contig network file read so far
    contigs_network, \* the graph: [nodes, weight], weight on sets {n1, n2}
    binned,          \* the contigs of the communities merged so far
    n_merged,        \* the number of communities merged so far
    G_before,        \* contigs_network before the latest merge_nodes
    last_nodes,      \* the `nodes` of the latest merge_nodes
    last_new_node,   \* its `new_node`
    fn_pc,           \* a single function called alone: "idle", "called", "returned"
    fn_args,         \* its arguments
    fn_result,       \* what it returned or raised
    part_pc,         \* where contigs_bin_network is before its merge loop
    part_error,      \* the exception that ended it, or "none"
    data_file,       \* the contigs data file: [width, rows]
    interest_file,   \* names in the contigs-of-interest file, [given, names]
    bin_size,        \* the bin_size threshold
    contigs_data,    \* the DataFrame: column name -> values
    contigs_of_interest, \* the list of ids of interest
    bin_list         \* community id -> member ids

pipe_vars ==
    <<pc, error, assembly, contig_data, hit_data, nb_alignment, self_contacts,
      file_i, all_contacts, inter_contacts, all_contacts_temp,
      inter_contacts_temp, records, pre_net, normalization, net_created, net>>

bin_vars ==
    <<bin_pc, bin_error, lines_read, contigs_network, binned, n_merged,
      G_before, last_nodes, last_new_node>>

fn_vars == <<fn_pc, fn_args, fn_result>>

part_vars ==
    <<part_pc, part_error, data_file, interest_file, bin_size, contigs_data,
      contigs_of_interest, bin_list>>

vars == <<pipe_vars, bin_vars, fn_vars, part_vars>>

EmptyDict == [n \in {} |-> 0]

\* Nodes of the graph: contig ids (integers in the code) and the bin nodes
\* "bin_" + str(bin_id).
Contig(k) == <<"contig", k>>
BinNode(bin_id) == <<"bin", bin_id>>
NoNode == <<"none", 0>>

EmptyGraph == [nodes |-> {}, weight |-> EmptyDict]

\* No function is being called alone.
FnIdle ==
    /\ fn_pc = "idle"
    /\ fn_args = <<>>
    /\ fn_result = <<>>

\* alignment_to_contacts has been called and nothing has run yet.
PipeInit ==
    /\ pc = "create"
    /\ error = "none"
    /\ assembly = <<>>
    /\ contig_data = EmptyDict
    /\ hit_data = EmptyDict
    /\ nb_alignment = 0
    /\ self_contacts = FALSE
    /\ file_i = 0
    /\ all_contacts = 0
    /\ inter_contacts = 0
    /\ all_contacts_temp = 0
    /\ inter_contacts_temp = 0
    /\ records = <<>>
    /\ pre_net = <<>>
    /\ normalization = "None"
    /\ net_created = FALSE
    /\ net = <<>>

\* contigs_bin_network is about to read the contig network file.
BinInit ==
    /\ bin_pc = "read"
    /\ bin_error = "none"
    /\ lines_read = 0
    /\ contigs_network = EmptyGraph
    /\ binned = {}
    /\ n_merged = 0
    /\ G_before = EmptyGraph
    /\ last_nodes = {}
    /\ last_new_node = NoNode

\* contigs_bin_network has not been called.
PartIdle ==
    /\ part_pc = "idle"
    /\ part_error = "none"
    /\ data_file = <<>>
    /\ interest_file = <<>>
    /\ bin_size = 0
    /\ contigs_data = EmptyDict
    /\ contigs_of_interest = <<>>
    /\ bin_list = EmptyDict

Init == PipeInit /\ BinInit /\ FnIdle /\ PartIdle

(***************************************************************************)
(* Dictionaries.                                                           *)
(***************************************************************************)
Put(d, key, val) ==
    [x \in (DOMAIN d) \cup {key} |-> IF x = key THEN val ELSE d[x]]

Fail(e) ==
    /\ pc' = "failed"
    /\ error' = e

(***************************************************************************)
(* create_contig_data                                                      *)
(***************************************************************************)
\* A registry loop that forgets to advance the id.
NextGlobalIdStuck(global_id) == global_id

\* global_id += 1
NextGlobalId(global_id) == global_id + 1

\* The dictionary stored for one contig.  `row` is the depth row read for
\* it; it is looked at only when a depth file was given.
ContigEntry(name, global_id, depth_given, row, enzyme) ==
    [id |-> global_id,
     length |-> IF depth_given THEN row.length ELSE SeqLen(name),
     hit |-> 0,
     coverage |-> IF depth_given THEN row.coverage ELSE Unset,
     RS |-> IF enzyme THEN Sites(name) + 1 ELSE Unset]

HitEntry(global_id, nb) == [id |-> global_id, hit |-> [i \in 1..nb |-> 0]]

\* The loop over SeqIO.parse(assembly), from contig number k on.  With a
\* depth file, depth.readline() past the last row gives "" and line[1]
\* raises IndexError.
RECURSIVE CreateLoop(_, _, _, _, _, _, _, _)
CreateLoop(asm, k, global_id, nb, depth_given, rows, enzyme, st) ==
    IF k > Len(asm) THEN st
    ELSE IF depth_given /\ k > Len(rows) THEN [st EXCEPT !.error = "IndexError"]
    ELSE CreateLoop(asm, k + 1, NextGlobalId(global_id), nb, depth_given, rows,
            enzyme,
            [st EXCEPT
                !.contig_data =
                    Put(@, asm[k],
                        ContigEntry(asm[k], global_id, depth_given,
                            IF depth_given THEN rows[k] ELSE <<>>, enzyme)),
                !.hit_data =
                    IF nb > 1 THEN Put(@, asm[k], HitEntry(global_id, nb))
                    ELSE @])

create_contig_data(asm, nb, depth_given, rows, enzyme) ==
    CreateLoop(asm, 1, 1, nb, depth_given, rows, enzyme,
        [contig_data |-> EmptyDict, hit_data |-> EmptyDict, error |-> "none"])

DepthArgs(n) ==
    {[given |-> FALSE, rows |-> <<>>]}
        \cup {[given |-> TRUE, rows |-> r] : r \in DepthFiles(n)}

\* alignment_to_contacts, up to the return of create_contig_data.
CreateContigData ==
    /\ pc = "create"
    /\ \E asm \in Assemblies, nb \in 1..MaxAlign, enzyme \in BOOLEAN :
        \E depth \in DepthArgs(Len(asm)) :
            LET r == create_contig_data(asm, nb, depth.given, depth.rows, enzyme)
            IN  /\ assembly' = asm
                /\ nb_alignment' = nb
                /\ IF r.error = "none"
                   THEN /\ contig_data' = r.contig_data
                        /\ hit_data' = r.hit_data
                        /\ pc' = "open"
                        /\ error' = error
                   ELSE /\ Fail(r.error)
                        /\ UNCHANGED <<contig_data, hit_data>>
    /\ UNCHANGED <<self_contacts, file_i, all_contacts, inter_contacts,
                   all_contacts_temp, inter_contacts_temp, records, pre_net,
                   normalization, net_created, net>>
    /\ UNCHANGED <<bin_vars, fn_vars, part_vars>>

\* create_contig_data called alone, its arguments kept beside its result.
CreateArgs ==
    UNION {
        {[assembly |-> asm, nb_alignment |-> nb, depth_given |-> depth.given,
          depth_rows |-> depth.rows, enzyme |-> enzyme] :
            nb \in 1..MaxAlign, depth \in DepthArgs(Len(asm)),
            enzyme \in BOOLEAN} :
        asm \in Assemblies}

InitCreate ==
    /\ PipeInit
    /\ BinInit
    /\ PartIdle
    /\ fn_pc = "called"
    /\ fn_args \in CreateArgs
    /\ fn_result = <<>>

ReturnContigData ==
    /\ fn_pc = "called"
    /\ fn_result' =
        create_contig_data(fn_args.assembly, fn_args.nb_alignment,
            fn_args.depth_given, fn_args.depth_rows, fn_args.enzyme)
    /\ fn_pc' = "returned"
    /\ UNCHANGED <<fn_args, pipe_vars, bin_vars, part_vars>>

(***************************************************************************)
(* precompute_network                                                      *)
(***************************************************************************)
\* Both increments computed from the counters as they were before the
\* record: a self-pair then adds one instead of two.
CountHitFromOld(cd, contig1, contig2) ==
    [x \in DOMAIN cd |->
        IF x \in {contig1, contig2} THEN [cd[x] EXCEPT !.hit = cd[x].hit + 1]
        ELSE cd[x]]

\* contig_data[contig1]["hit"] += 1; contig_data[contig2]["hit"] += 1
CountHit(cd, contig1, contig2) ==
    LET cd1 == [cd EXCEPT ![contig1].hit = @ + 1]
    IN  [cd1 EXCEPT ![contig2].hit = @ + 1]

\* hit_data[contig1]["hit"][i] += 1; hit_data[contig2]["hit"][i] += 1
\* (only with more than one alignment file; i is 0-based in the code)
CountFileHit(hd, nb, i, contig1, contig2) ==
    IF nb > 1
    THEN LET hd1 == [hd EXCEPT ![contig1].hit[i + 1] = @ + 1]
         IN  [hd1 EXCEPT ![contig2].hit[i + 1] = @ + 1]
    ELSE hd

\* A collector that writes the pair as read, whatever the ids.
PreNetLineAsRead(sc, contig1, contig2, id1, id2) ==
    IF id1 = id2 /\ ~sc THEN <<>> ELSE << <<contig1, contig2>> >>

\* A collector that ignores the self_contacts flag.
PreNetLineKeepSelf(sc, contig1, contig2, id1, id2) ==
    IF id1 > id2 THEN << <<contig2, contig1>> >> ELSE << <<contig1, contig2>> >>

\* The lines one record adds to the pre-network file: none or one.
PreNetLine(sc, contig1, contig2, id1, id2) ==
    IF sc /\ id1 = id2 THEN << <<contig1, contig2>> >>
    ELSE IF id1 < id2 THEN << <<contig1, contig2>> >>
    ELSE IF id1 > id2 THEN << <<contig2, contig1>> >>
    ELSE <<>>

\* inter_contacts_temp += 1 in the two branches for differing ids
InterStep(id1, id2) == IF id1 /= id2 THEN 1 ELSE 0

\* open(out_file, "w"): the pre-network file is created empty.
OpenPreNet ==
    /\ pc = "open"
    /\ \E sc \in BOOLEAN : self_contacts' = sc
    /\ pre_net' = <<>>
    /\ pc' = "precompute"
    /\ UNCHANGED <<error, assembly, contig_data, hit_data, nb_alignment, file_i,
                   all_contacts, inter_contacts, all_contacts_temp,
                   inter_contacts_temp, records, normalization, net_created,
                   net>>
    /\ UNCHANGED <<bin_vars, fn_vars, part_vars>>

\* A record whose second contig is looked up after the first contig was
\* counted.
RaisedAfterCount(cd, contig1, contig2) ==
    IF contig1 \in DOMAIN cd
    THEN [cd EXCEPT ![contig1].hit = @ + 1]
    ELSE cd

\* The registry when contig_data[contig1]["id"] or contig_data[contig2]["id"]
\* raises KeyError: both are looked up before any counter is touched.
RaisedAtLookup(cd, contig1, contig2) == cd

\* One pass of the loop over the lines of alignment file file_i.
ReadRecord ==
    /\ pc = "precompute"
    /\ file_i < nb_alignment
    /\ Len(records) < MaxRecords
    /\ \E contig1 \in Names, contig2 \in Names :
        /\ records' = Append(records, <<contig1, contig2>>)
        /\ IF contig1 \notin DOMAIN contig_data \/ contig2 \notin DOMAIN contig_data
           THEN \* contig_data[contig1]["id"] raises KeyError
                /\ Fail("KeyError")
                /\ contig_data' = RaisedAtLookup(contig_data, contig1, contig2)
                /\ UNCHANGED <<hit_data, all_contacts_temp,
                               inter_contacts_temp, pre_net>>
           ELSE LET id1 == contig_data[contig1].id
                    id2 == contig_data[contig2].id
                IN  /\ all_contacts_temp' = all_contacts_temp + 1
                    /\ contig_data' = CountHit(contig_data, contig1, contig2)
                    /\ hit_data' =
                        CountFileHit(hit_data, nb_alignment, file_i, contig1,
                            contig2)
                    /\ pre_net' =
                        pre_net \o PreNetLine(self_contacts, contig1, contig2,
                                       id1, id2)
                    /\ inter_contacts_temp' =
                        inter_contacts_temp + InterStep(id1, id2)
                    /\ UNCHANGED <<pc, error>>
    /\ UNCHANGED <<assembly, nb_alignment, self_contacts, file_i, all_contacts,
                   inter_contacts, normalization, net_created, net>>
    /\ UNCHANGED <<bin_vars, fn_vars, part_vars>>

\* The end of alignment file file_i: the counts are added up and the 3D
\* ratio inter_contacts_temp / all_contacts_temp is logged, which raises
\* ZeroDivisionError for a file without records.  After the last file the
\* general information is logged and contig_data returned.
EndFile ==
    /\ pc = "precompute"
    /\ file_i < nb_alignment
    /\ IF all_contacts_temp = 0
       THEN /\ Fail("ZeroDivisionError")
            /\ UNCHANGED <<file_i, all_contacts, inter_contacts,
                           all_contacts_temp, inter_contacts_temp>>
       ELSE /\ all_contacts' = all_contacts + all_contacts_temp
            /\ inter_contacts' = inter_contacts + inter_contacts_temp
            /\ file_i' = file_i + 1
            /\ all_contacts_temp' = 0
            /\ inter_contacts_temp' = 0
            /\ pc' = IF file_i + 1 = nb_alignment THEN "compute" ELSE pc
            /\ error' = error
    /\ UNCHANGED <<assembly, contig_data, hit_data, nb_alignment, self_contacts,
                   records, pre_net, normalization, net_created, net>>
    /\ UNCHANGED <<bin_vars, fn_vars, part_vars>>

(***************************************************************************)
(* compute_network and normalize_pair                                      *)
(***************************************************************************)
\* mio.sort_pairs: the lines of the pre-network file in lexicographic
\* order, first field then second.
PairLess(p, q) ==
    \/ Rank(p[1]) < Rank(q[1])
    \/ Rank(p[1]) = Rank(q[1]) /\ Rank(p[2]) < Rank(q[2])

RECURSIVE InsertPair(_, _)
InsertPair(p, sorted) ==
    IF sorted = <<>> THEN <<p>>
    ELSE IF PairLess(p, Head(sorted)) THEN <<p>> \o sorted
    ELSE <<Head(sorted)>> \o InsertPair(p, Tail(sorted))

RECURSIVE sort_pairs(_)
sort_pairs(lines) ==
    IF lines = <<>> THEN <<>>
    ELSE InsertPair(Head(lines), sort_pairs(Tail(lines)))

\* A weight n / (num / den)^(1 / pow): the float n_occ / factor, kept
\* exact.  RawCount(n) is the integer n, ZeroWeight the integer 0.
Ratio(n, pow, num, den) == [n |-> n, pow |-> pow, num |-> num, den |-> den]
RawCount(n) == Ratio(n, 1, 1, 1)
ZeroWeight == Ratio(0, 1, 1, 1)

Returned(w) == [error |-> "none", weight |-> w]
Raised(e) == [error |-> e, weight |-> ZeroWeight]

ZeroFactorDivides(product, w) == Returned(w)

\* if factor == 0: return 0, and else the return statement.  `product` is
\* what the square roots of the factor are taken of: the factor is 0
\* exactly when it is.
ZeroFactorReturns(product, w) ==
    IF product = 0 THEN Returned(ZeroWeight) ELSE Returned(w)

\* normalize_pair.  A field "-" in arithmetic raises TypeError, a division
\* by a length of 0 ZeroDivisionError; a strategy
\* name matching no branch leaves `factor` unassigned, and the return
\* statement raises UnboundLocalError.
normalize_pair(cd, prev_pair, n_occ, norm) ==
    LET c1 == cd[prev_pair[1]]
        c2 == cd[prev_pair[2]]
        noCov == c1.coverage = Unset \/ c2.coverage = Unset
        noRS == c1.RS = Unset \/ c2.RS = Unset
    IN  IF norm = "abundance" THEN
            IF noCov THEN Raised("TypeError")
            ELSE ZeroFactorReturns(c1.coverage * c2.coverage,
                     Ratio(n_occ, 2, c1.coverage * c2.coverage, 1))
        ELSE IF norm = "length" THEN
            IF c1.length * c2.length = 0 THEN Raised("ZeroDivisionError")
            ELSE Returned(Ratio(n_occ, 2, c1.hit * c2.hit,
                     c1.length * c2.length))
        ELSE IF norm = "RS" THEN
            IF noRS THEN Raised("TypeError")
            ELSE Returned(Ratio(n_occ, 2, c1.hit * c2.hit,
                     10000 * c1.RS * c2.RS))
        ELSE IF norm = "RS_length" THEN
            IF noRS THEN Raised("TypeError")
            ELSE Returned(Ratio(n_occ, 4,
                     c1.hit * c1.hit * c1.length * c1.RS
                         * c2.hit * c2.hit * c2.length * c2.RS,
                     10000))
        ELSE IF norm = "empirical_hit" THEN
            Returned(Ratio(n_occ, 2, c1.hit * c2.hit, 1))
        ELSE IF norm = "theoritical_hit" THEN
            IF noCov \/ noRS THEN Raised("TypeError")
            ELSE ZeroFactorReturns(
                     c1.coverage * c1.length * c1.RS
                         * c2.coverage * c2.length * c2.RS,
                     Ratio(n_occ, 4,
                         10000 * c1.coverage * c1.coverage * c1.length * c1.RS
                             * c2.coverage * c2.coverage * c2.length * c2.RS,
                         1))
        ELSE Raised("UnboundLocalError")

\* if normalization != "None": normalize_pair(...) else: n_occ
EffectiveCount(cd, prev_pair, n_occ, norm) ==
    IF norm /= "None" THEN normalize_pair(cd, prev_pair, n_occ, norm)
    ELSE Returned(RawCount(n_occ))

\* One line of the network file.
EdgeLine(cd, pair, weight) == <<cd[pair[1]].id, cd[pair[2]].id, weight>>

\* The local variable curr_pair before the loop has assigned it.
Unbound == <<>>

\* The body of the loop over the sorted pairs, for the line `pair`.
GroupStep(cd, norm, st, pair) ==
    IF st.prev_pair = pair
    THEN [st EXCEPT !.curr_pair = pair, !.n_occ = @ + 1]
    ELSE IF st.n_occ > 0
    THEN LET r == EffectiveCount(cd, st.prev_pair, st.n_occ, norm)
         IN  IF r.error /= "none"
             THEN [st EXCEPT !.curr_pair = pair, !.error = r.error]
             ELSE [st EXCEPT
                      !.curr_pair = pair,
                      !.net = Append(@, EdgeLine(cd, st.prev_pair, r.weight)),
                      !.prev_pair = pair,
                      !.n_occ = 1]
    ELSE [st EXCEPT !.curr_pair = pair, !.prev_pair = pair, !.n_occ = 1]

RECURSIVE GroupLoop(_, _, _, _, _)
GroupLoop(cd, norm, sorted, j, st) ==
    IF j > Len(sorted) \/ st.error /= "none" THEN st
    ELSE GroupLoop(cd, norm, sorted, j + 1, GroupStep(cd, norm, st, sorted[j]))

\* "Write the last value": the effective count is that of prev_pair, the
\* ids written are those of curr_pair, which is unassigned when the loop
\* body never ran.
LastValue(cd, norm, st) ==
    LET r == EffectiveCount(cd, st.prev_pair, st.n_occ, norm)
    IN  IF r.error /= "none" THEN [st EXCEPT !.error = r.error]
        ELSE IF st.curr_pair = Unbound
        THEN [st EXCEPT !.error = "UnboundLocalError"]
        ELSE [st EXCEPT !.net = Append(@, EdgeLine(cd, st.curr_pair, r.weight))]

\* compute_network from the opening of the two files on: what is in the
\* network file, and the exception raised if any.  next() on an empty
\* sorted file raises StopIteration.
compute_network(cd, norm, lines) ==
    LET sorted == sort_pairs(lines)
    IN  IF sorted = <<>>
        THEN [net |-> <<>>, error |-> "StopIteration"]
        ELSE LET st0 == [prev_pair |-> sorted[1], curr_pair |-> Unbound,
                         n_occ |-> 1, net |-> <<>>, error |-> "none"]
                 st1 == GroupLoop(cd, norm, sorted, 2, st0)
                 st2 == IF st1.error /= "none" THEN st1
                        ELSE LastValue(cd, norm, st1)
             IN  [net |-> st2.net, error |-> st2.error]

\* alignment_to_contacts from the call of compute_network to its return.
ComputeNetwork ==
    /\ pc = "compute"
    /\ \E norm \in Normalizations :
        LET r == compute_network(contig_data, norm, pre_net)
        IN  /\ normalization' = norm
            /\ net_created' = TRUE
            /\ net' = r.net
            /\ IF r.error = "none"
               THEN pc' = "done" /\ error' = error
               ELSE Fail(r.error)
    /\ UNCHANGED <<assembly, contig_data, hit_data, nb_alignment, self_contacts,
                   file_i, all_contacts, inter_contacts, all_contacts_temp,
                   inter_contacts_temp, records, pre_net>>
    /\ UNCHANGED <<bin_vars, fn_vars, part_vars>>

(***************************************************************************)
(* merge_nodes, and the loop of contigs_bin_network that calls it          *)
(***************************************************************************)
Edge(n1, n2) == {n1, n2}
has_edge(G, n1, n2) == Edge(n1, n2) \in DOMAIN G.weight

\* G.add_edge(n1, n2, weight=w): the edge is created, or its weight set.
add_edge(G, n1, n2, w) ==
    [nodes |-> G.nodes \cup {n1, n2}, weight |-> Put(G.weight, Edge(n1, n2), w)]

\* A merge that sets the weight of the redirected edge instead of adding.
AddToNewNodeOverwrite(G2, n, new_node, w) == add_edge(G2, n, new_node, w)

\* if G2.has_edge(n, new_node): G2.edges[n, new_node]["weight"] += w
\* else: G2.add_edge(n, new_node, weight=w)
AddToNewNode(G2, n, new_node, w) ==
    IF has_edge(G2, n, new_node)
    THEN [G2 EXCEPT !.weight[Edge(n, new_node)] = @ + w]
    ELSE add_edge(G2, n, new_node, w)

\* A merge that folds an edge between two members into a self-loop of
\* the new node.
MergeEdgeSelfLoop(G2, nodes, new_node, n1, n2, w) ==
    IF n1 \in nodes /\ n2 \in nodes THEN AddToNewNode(G2, new_node, new_node, w)
    ELSE IF n1 \in nodes THEN AddToNewNode(G2, n2, new_node, w)
    ELSE IF n2 \in nodes THEN AddToNewNode(G2, n1, new_node, w)
    ELSE G2

\* The body of the loop over G1.edges(data=True) for the edge reported as
\* (n1, n2) with weight w.
MergeEdge(G2, nodes, new_node, n1, n2, w) ==
    IF n1 \in nodes THEN AddToNewNode(G2, n2, new_node, w)
    ELSE IF n2 \in nodes THEN AddToNewNode(G2, n1, new_node, w)
    ELSE G2

\* G2.remove_node(n): the node and the edges at it.
remove_node(G, n) ==
    LET kept == {e \in DOMAIN G.weight : n \notin e}
    IN  [nodes |-> G.nodes \ {n}, weight |-> [e \in kept |-> G.weight[e]]]

\* for n in nodes: G2.remove_node(n)
RECURSIVE RemoveNodes(_, _)
RemoveNodes(G2, nodes) ==
    IF nodes = {} THEN G2
    ELSE LET n == CHOOSE x \in nodes : TRUE
         IN  RemoveNodes(remove_node(G2, n), nodes \ {n})

\* The other end of edge e seen from n1 (n1 itself for a self-loop).
OtherEnd(e, n1) == IF e = {n1} THEN n1 ELSE CHOOSE x \in e : x /= n1

\* The loop over the edges of G1 not yet visited; first[e] is the end of e
\* that G1.edges reports first.
RECURSIVE MergeLoop(_, _, _, _, _, _)
MergeLoop(G1, todo, first, G2, nodes, new_node) ==
    IF todo = {} THEN G2
    ELSE LET e == CHOOSE x \in todo : TRUE
         IN  MergeLoop(G1, todo \ {e}, first,
                 MergeEdge(G2, nodes, new_node, first[e], OtherEnd(e, first[e]),
                     G1.weight[e]),
                 nodes, new_node)

\* merge_nodes(G1, nodes, new_node).  remove_node raises NetworkXError for
\* a node that is not in the graph.
merge_nodes(G1, nodes, new_node, first) ==
    LET G2 == [G1 EXCEPT !.nodes = @ \cup {new_node}]
        G3 == MergeLoop(G1, DOMAIN G1.weight, first, G2, nodes, new_node)
    IN  IF nodes \subseteq G3.nodes
        THEN [graph |-> RemoveNodes(G3, nodes), error |-> "none"]
        ELSE [graph |-> G1, error |-> "NetworkXError"]

\* The orders in which G.edges may report the two ends of each edge.
Orientations(G) == {f \in [DOMAIN G.weight -> G.nodes] : \A e \in DOMAIN f : f[e] \in e}

ContigIds == 1..MaxNode

\* nx.read_edgelist, one line "id1 <TAB> id2 <TAB> weight" at a time.
ReadEdgeLine ==
    /\ bin_pc = "read"
    /\ lines_read < MaxLines
    /\ \E id1 \in ContigIds, id2 \in ContigIds, w \in 1..MaxWeight :
        contigs_network' = add_edge(contigs_network, Contig(id1), Contig(id2), w)
    /\ lines_read' = lines_read + 1
    /\ UNCHANGED <<bin_pc, bin_error, binned, n_merged, G_before, last_nodes,
                   last_new_node>>
    /\ UNCHANGED <<pipe_vars, fn_vars, part_vars>>

\* The end of the network file; bin_list is built next.
EndOfNetwork ==
    /\ bin_pc = "read"
    /\ bin_pc' = "merge"
    /\ UNCHANGED <<bin_error, lines_read, contigs_network, binned, n_merged,
                   G_before, last_nodes, last_new_node>>
    /\ UNCHANGED <<pipe_vars, fn_vars, part_vars>>

\* One pass of the loop over bin_list: the member list of the next
\* community (the lists of bin_list are disjoint) is merged into bin_node.
MergeNodes ==
    /\ bin_pc = "merge"
    /\ \E members \in (SUBSET (ContigIds \ binned)) \ {{}} :
        \E first \in Orientations(contigs_network) :
            LET nodes == {Contig(k) : k \in members}
                bin_node == BinNode(n_merged + 1)
                r == merge_nodes(contigs_network, nodes, bin_node, first)
            IN  /\ G_before' = contigs_network
                /\ last_nodes' = nodes
                /\ last_new_node' = bin_node
                /\ binned' = binned \cup members
                /\ n_merged' = n_merged + 1
                /\ contigs_network' = r.graph
                /\ bin_error' = r.error
                /\ bin_pc' = IF r.error = "none" THEN bin_pc ELSE "failed"
    /\ UNCHANGED lines_read
    /\ UNCHANGED <<pipe_vars, fn_vars, part_vars>>

(***************************************************************************)
(* contigs_bin_network, up to its merge loop                               *)
(***************************************************************************)
\* The list assigned to contigs_data.columns.  "Restriction_site" and
\* "core_comunitiy_id" are adjacent string literals without a comma, so
\* they are one name and the list has twelve names.
ColumnNames ==
    <<"ID", "Name", "Size", "GC_content", "HiC_contact", "Shotgun_coverage",
      "Restriction_sitecore_comunitiy_id", "core_community_contigs",
      "core_community_size", "overlapping_comunitiy_id",
      "overlapping_community_contigs", "overlapping_community_size">>

ColumnSet == {ColumnNames[i] : i \in 1..Len(ColumnNames)}

\* The name of the contig with id k in the contigs data file.
NodeName(k) == <<"NODE", k>>

\* The contigs data files: one row per contig id, with the id and the size
\* of its overlapping community, in as many columns as ColumnNames has
\* names or in one more (the seven columns of the contig data file and six
\* of community data).
DataFiles ==
    {[width |-> w,
      rows |-> [k \in ContigIds |->
                   [ID |-> k, Name |-> NodeName(k), oc_id |-> comm[k],
                    oc_size |-> size[comm[k]]]]] :
        w \in {Len(ColumnNames), Len(ColumnNames) + 1},
        comm \in [ContigIds -> 1..MaxComm],
        size \in [1..MaxComm -> 1..MaxSize]}

InterestFiles ==
    {[given |-> FALSE, names |-> {}]}
        \cup {[given |-> TRUE, names |-> {NodeName(k) : k \in ks}] :
                 ks \in SUBSET ContigIds}

\* The DataFrame once the column names are assigned: the values of each
\* named column, by row.
Frame(file) ==
    [c \in ColumnSet |->
        [k \in DOMAIN file.rows |->
            IF c = "ID" THEN file.rows[k].ID
            ELSE IF c = "Name" THEN file.rows[k].Name
            ELSE IF c = "overlapping_comunitiy_id" THEN file.rows[k].oc_id
            ELSE IF c = "overlapping_community_size" THEN file.rows[k].oc_size
            ELSE 0]]

InSeq(x, seq) == \E i \in DOMAIN seq : seq[i] = x

\* contigs_of_interest.merge(contigs_data, on="name", how="inner")["id"]:
\* the ids of the rows whose name is in the file.  A column that the frame
\* does not have raises KeyError.
RECURSIVE InterestIds(_, _, _)
InterestIds(df, names, k) ==
    IF k > Len(df["id"]) THEN <<>>
    ELSE (IF df["name"][k] \in names THEN <<df["id"][k]>> ELSE <<>>)
         \o InterestIds(df, names, k + 1)

look_for_interest(df, file) ==
    IF ~file.given THEN [error |-> "none", ids |-> <<>>]
    ELSE IF "name" \notin DOMAIN df THEN [error |-> "KeyError: 'name'", ids |-> <<>>]
    ELSE IF "id" \notin DOMAIN df THEN [error |-> "KeyError: 'id'", ids |-> <<>>]
    ELSE [error |-> "none", ids |-> InterestIds(df, file.names, 1)]

\* bin_list[oc_id].append(contig_id), or bin_list[oc_id] = [contig_id]
AppendMember(bl, oc_id, contig_id) ==
    IF oc_id \in DOMAIN bl THEN [bl EXCEPT ![oc_id] = Append(@, contig_id)]
    ELSE Put(bl, oc_id, <<contig_id>>)

\* The loop over contigs_data["id"], from row k on.  Only ValueError is
\* caught in it.  Row contig_id - 1 of the frame, counted from 0, is
\* element contig_id of the column.
RECURSIVE BinListLoop(_, _, _, _, _)
BinListLoop(df, interest, size, k, st) ==
    IF k > Len(df["id"]) \/ st.error /= "none" THEN st
    ELSE LET contig_id == df["id"][k]
         IN  IF InSeq(contig_id, interest)
             THEN BinListLoop(df, interest, size, k + 1, st)
             ELSE IF "oc_id" \notin DOMAIN df
             THEN [st EXCEPT !.error = "KeyError: 'oc_id'"]
             ELSE IF "oc_length" \notin DOMAIN df
             THEN [st EXCEPT !.error = "KeyError: 'oc_length'"]
             ELSE BinListLoop(df, interest, size, k + 1,
                      IF df["oc_length"][contig_id] > size
                      THEN [st EXCEPT
                               !.bin_list =
                                   AppendMember(@, df["oc_id"][contig_id],
                                       contig_id)]
                      ELSE st)

\* bin_list = dict(); for contig_id in contigs_data["id"]: ...
build_bin_list(df, interest, size) ==
    IF "id" \notin DOMAIN df
    THEN [error |-> "KeyError: 'id'", bin_list |-> EmptyDict]
    ELSE BinListLoop(df, interest, size, 1,
             [error |-> "none", bin_list |-> EmptyDict])

PartFail(e) ==
    /\ part_pc' = "failed"
    /\ part_error' = e

\* contigs_bin_network is called.
InitPart ==
    /\ PipeInit
    /\ BinInit
    /\ FnIdle
    /\ part_pc = "import"
    /\ part_error = "none"
    /\ data_file \in DataFiles
    /\ interest_file \in InterestFiles
    /\ bin_size \in 1..MaxSize
    /\ contigs_data = EmptyDict
    /\ contigs_of_interest = <<>>
    /\ bin_list = EmptyDict

\* pd.read_csv and the assignment of the column names, which raises
\* ValueError when the file has another number of columns.
ImportContigsData ==
    /\ part_pc = "import"
    /\ IF data_file.width /= Len(ColumnNames)
       THEN PartFail("ValueError") /\ UNCHANGED contigs_data
       ELSE /\ contigs_data' = Frame(data_file)
            /\ part_pc' = "interest"
            /\ part_error' = part_error
    /\ UNCHANGED <<data_file, interest_file, bin_size, contigs_of_interest,
                   bin_list>>
    /\ UNCHANGED <<pipe_vars, bin_vars, fn_vars>>

\* "Look for contigs of interest is some given"
LookForInterest ==
    /\ part_pc = "interest"
    /\ LET r == look_for_interest(contigs_data, interest_file)
       IN  IF r.error /= "none"
           THEN PartFail(r.error) /\ UNCHANGED contigs_of_interest
           ELSE /\ contigs_of_interest' = r.ids
                /\ part_pc' = "bin_list"
                /\ part_error' = part_error
    /\ UNCHANGED <<data_file, interest_file, bin_size, contigs_data, bin_list>>
    /\ UNCHANGED <<pipe_vars, bin_vars, fn_vars>>

\* "Look for the contigs list of each overlapping bin"
BuildBinList ==
    /\ part_pc = "bin_list"
    /\ LET r == build_bin_list(contigs_data, contigs_of_interest, bin_size)
       IN  /\ bin_list' = r.bin_list
           /\ IF r.error /= "none"
              THEN PartFail(r.error)
              ELSE part_pc' = "merge" /\ part_error' = part_error
    /\ UNCHANGED <<data_file, interest_file, bin_size, contigs_data,
                   contigs_of_interest>>
    /\ UNCHANGED <<pipe_vars, bin_vars, fn_vars>>

(***************************************************************************)
(* normalize_pair, called alone                                            *)
(***************************************************************************)
\* The entries of the two contigs "a" and "b" of a registry as
\* create_contig_data builds it and precompute_network counts into it: with
\* a depth file the length and the coverage are what the file says, without
\* one the coverage is "-"; RS is the number of sites plus one, or "-".
PairRegistries(min_hit) ==
    LET lengths(depth) == IF depth THEN 0..MaxLength ELSE 1..MaxLength
        coverages(depth) == IF depth THEN 0..MaxCov ELSE {Unset}
        rss(enzyme) == IF enzyme THEN 1..(MaxSites + 1) ELSE {Unset}
        entries(k, depth, enzyme) ==
            [id : {k}, length : lengths(depth), hit : min_hit..MaxOcc,
             coverage : coverages(depth), RS : rss(enzyme)]
    IN  UNION {
            {[n \in {"a", "b"} |-> IF n = "a" THEN ea ELSE eb] :
                ea \in entries(1, depth, enzyme),
                eb \in entries(2, depth, enzyme)} :
            depth \in BOOLEAN, enzyme \in BOOLEAN}

NormArgs ==
    UNION {
        [contig_data : PairRegistries(n), prev_pair : {"a", "b"} \X {"a", "b"},
         n_occ : {n}, normalization : Normalizations \ {"None"}] :
        n \in 1..MaxOcc}

InitNorm ==
    /\ PipeInit
    /\ BinInit
    /\ PartIdle
    /\ fn_pc = "called"
    /\ fn_args \in NormArgs
    /\ fn_result = <<>>

ReturnWeight ==
    /\ fn_pc = "called"
    /\ fn_result' = normalize_pair(fn_args.contig_data, fn_args.prev_pair,
                        fn_args.n_occ, fn_args.normalization)
    /\ fn_pc' = "returned"
    /\ UNCHANGED <<fn_args, pipe_vars, bin_vars, part_vars>>

Next ==
    \/ CreateContigData
    \/ OpenPreNet
    \/ ReadRecord
    \/ EndFile
    \/ ComputeNetwork

Spec == Init /\ [][Next]_vars

NextBin ==
    \/ ReadEdgeLine
    \/ EndOfNetwork
    \/ MergeNodes

SpecBin == Init /\ [][NextBin]_vars

NextCreate == ReturnContigData

SpecCreate == InitCreate /\ [][NextCreate]_vars

NextPart ==
    \/ ImportContigsData
    \/ LookForInterest
    \/ BuildBinList

SpecPart == InitPart /\ [][NextPart]_vars

NextNorm == ReturnWeight

SpecNorm == InitNorm /\ [][NextNorm]_vars

(***************************************************************************)
(* Properties                                                              *)
(***************************************************************************)
RECURSIVE SumCounts(_)
SumCounts(lines) ==
    IF lines = <<>> THEN 0 ELSE Head(lines)[3].n + SumCounts(Tail(lines))

\* compute_network has run, to its end or to an exception.
ComputeRan == net_created

Registered == DOMAIN contig_data
IdOf(name) == contig_data[name].id

\* C1: with normalization "None", once precompute_network and
\* compute_network have run, the weights of the edge list sum to the number
\* of lines of the pre-network file.
C1_WeightSumIsRetainedCount ==
    (ComputeRan /\ normalization = "None") => SumCounts(net) = Len(pre_net)

\* C2: no unordered pair of ids, and no self-pair, is on two lines of the
\* network file.
C2_OneLinePerPair ==
    \A i, j \in DOMAIN net :
        i /= j => {net[i][1], net[i][2]} /= {net[j][1], net[j][2]}

\* Two contigs seen as (x, y) in one alignment file and as (y, x) in the
\* other end up on one line of weight 2.
C2_Witness ==
    /\ pc = "done"
    /\ normalization = "None"
    /\ nb_alignment = 2
    /\ Len(records) = 2
    /\ records[1][1] /= records[1][2]
    /\ records[2] = <<records[1][2], records[1][1]>>
    /\ Len(net) = 1
    /\ net[1][3] = RawCount(2)

\* C3: when the pre-network file is empty, compute_network ends normally
\* and the network file is empty.
C3_EmptyStreamGivesEmptyList ==
    (ComputeRan /\ pre_net = <<>>) => (pc = "done" /\ net = <<>>)

\* C4: when all k >= 1 lines of the pre-network file are the same pair and
\* normalization is "None", the network file is the one line of that
\* pair's ids with weight k.
C4_OneGroupOneLine ==
    (/\ ComputeRan
     /\ normalization = "None"
     /\ pre_net /= <<>>
     /\ \A i \in DOMAIN pre_net : pre_net[i] = pre_net[1])
        => /\ pc = "done"
           /\ net = << <<IdOf(pre_net[1][1]), IdOf(pre_net[1][2]),
                        RawCount(Len(pre_net))>> >>

\* create_contig_data has returned the registry.
RegistryBuilt == pc \notin {"create"} /\ ~(pc = "failed" /\ error = "IndexError")

\* C5: once create_contig_data has returned, and through
\* precompute_network and compute_network, the registered names are those
\* of the assembly, the k-th contig of the assembly has id k, and the ids
\* are exactly 1..N.
C5_IdsFollowAssemblyOrder ==
    RegistryBuilt =>
        /\ Registered = {assembly[k] : k \in DOMAIN assembly}
        /\ \A k \in DOMAIN assembly : IdOf(assembly[k]) = k
        /\ {IdOf(name) : name \in Registered} = 1..Len(assembly)
        /\ \A n1, n2 \in Registered : IdOf(n1) = IdOf(n2) => n1 = n2

\* Three contigs whose id order is not their name order, with a depth file
\* and an enzyme, after the whole pipeline has run.
C5_Witness ==
    /\ pc = "done"
    /\ assembly = <<"c", "a", "b">>
    /\ IdOf("c") = 1 /\ IdOf("a") = 2 /\ IdOf("b") = 3
    /\ contig_data["c"].coverage /= Unset
    /\ contig_data["c"].RS /= Unset
    /\ contig_data["c"].hit > 0

\* The records precompute_network has counted: all those read, but the one
\* that raised KeyError.
Counted ==
    IF error = "KeyError" THEN SubSeq(records, 1, Len(records) - 1) ELSE records

RECURSIVE Ends(_, _)
Ends(name, recs) ==
    IF recs = <<>> THEN 0
    ELSE (IF Head(recs)[1] = name THEN 1 ELSE 0)
         + (IF Head(recs)[2] = name THEN 1 ELSE 0)
         + Ends(name, Tail(recs))

RECURSIVE SelfPairs(_, _)
SelfPairs(name, recs) ==
    IF recs = <<>> THEN 0
    ELSE (IF Head(recs) = <<name, name>> THEN 1 ELSE 0)
         + SelfPairs(name, Tail(recs))

\* C6: at every point of precompute_network, whatever self_contacts is,
\* each contig's hit counter is the number of record ends that name it in
\* the records counted so far, so at least twice the number of its
\* self-pair records.
C6_HitIsEndCount ==
    \A name \in Registered :
        /\ contig_data[name].hit = Ends(name, Counted)
        /\ contig_data[name].hit >= 2 * SelfPairs(name, Counted)

\* A self-pair record that was not written (self_contacts off) and still
\* added two hits to its contig.
C6_Witness ==
    /\ pc = "precompute"
    /\ ~self_contacts
    /\ Len(records) = 2
    /\ records[1] = records[2]
    /\ records[1][1] = records[1][2]
    /\ pre_net = <<>>
    /\ contig_data[records[1][1]].hit = 4

IsPrefix(s, t) == Len(s) <= Len(t) /\ SubSeq(t, 1, Len(s)) = s

\* What the claim says a record adds to the pre-network file.
ExpectedLines(sc, contig1, contig2) ==
    IF contig1 = contig2
    THEN (IF sc THEN << <<contig1, contig2>> >> ELSE <<>>)
    ELSE IF IdOf(contig1) < IdOf(contig2) THEN << <<contig1, contig2>> >>
    ELSE << <<contig2, contig1>> >>

C7_Step ==
    /\ IsPrefix(pre_net, pre_net')
    /\ (records' /= records /\ error' = "none") =>
        LET rec == records'[Len(records')]
        IN  pre_net' = pre_net \o ExpectedLines(self_contacts, rec[1], rec[2])
    /\ \A i \in DOMAIN pre_net' :
        /\ IdOf(pre_net'[i][1]) <= IdOf(pre_net'[i][2])
        /\ IdOf(pre_net'[i][1]) = IdOf(pre_net'[i][2]) => self_contacts'

\* C7: every step leaves the lines already in the pre-network file as they
\* are; a counted record appends the pair as read if it is a self-pair and
\* self_contacts is on, the pair with the lower id first if the ids
\* differ, and nothing otherwise; on every line id(first) <= id(second),
\* with equality only when self_contacts is on.
C7_CanonicalAppendOnly == [][C7_Step]_vars

\* With self_contacts off: a self-pair record that was dropped, then a
\* record with the higher id first that was written swapped.
C7_Witness ==
    /\ pc = "precompute"
    /\ ~self_contacts
    /\ Len(records) = 2
    /\ records[1][1] = records[1][2]
    /\ IdOf(records[2][1]) > IdOf(records[2][2])
    /\ pre_net = << <<records[2][2], records[2][1]>> >>

WeightOf(G, n1, n2) == IF has_edge(G, n1, n2) THEN G.weight[Edge(n1, n2)] ELSE 0

RECURSIVE SumToward(_, _, _)
SumToward(G, members, x) ==
    IF members = {} THEN 0
    ELSE LET m == CHOOSE y \in members : TRUE
         IN  WeightOf(G, m, x) + SumToward(G, members \ {m}, x)

RECURSIVE TotalWeight(_, _)
TotalWeight(G, edges) ==
    IF edges = {} THEN 0
    ELSE LET e == CHOOSE y \in edges : TRUE
         IN  G.weight[e] + TotalWeight(G, edges \ {e})

\* merge_nodes has returned at least once, and the latest call returned.
Merged == last_new_node /= NoNode /\ bin_error = "none"

\* C8: after merge_nodes, for every node x of the graph other than the new
\* node, the edge (new node, x) exists iff a member had an edge to x before
\* the merge, and its weight is the sum of the weights of the member-x
\* edges before the merge.
C8_RedirectedWeightsAreSummed ==
    Merged =>
        \A x \in contigs_network.nodes \ {last_new_node} :
            LET adj == {m \in last_nodes : has_edge(G_before, m, x)}
            IN  /\ has_edge(contigs_network, last_new_node, x) <=> adj /= {}
                /\ WeightOf(contigs_network, last_new_node, x)
                       = SumToward(G_before, last_nodes, x)

\* A second community of two members, both with an edge to the bin node of
\* the first community: the two weights 1 and 2 are summed.
C8_Witness ==
    /\ Merged
    /\ n_merged = 2
    /\ Cardinality(last_nodes) = 2
    /\ \A m \in last_nodes : has_edge(G_before, m, BinNode(1))
    /\ {WeightOf(G_before, m, BinNode(1)) : m \in last_nodes} = {1, 2}
    /\ WeightOf(contigs_network, BinNode(2), BinNode(1)) = 3

Inside(G, members) == {e \in DOMAIN G.weight : e \subseteq members}
Outside(G, members) == {e \in DOMAIN G.weight : e \cap members = {}}

\* C9: after merge_nodes no member is a node of the graph, the new node
\* has no self-loop, the edges between two non-members are those of before
\* with their weights, and the total weight is that of before less the
\* weight of the edges that had both ends among the members.
C9_MembersGoneInnerEdgesDropped ==
    Merged =>
        /\ contigs_network.nodes = (G_before.nodes \ last_nodes) \cup {last_new_node}
        /\ ~has_edge(contigs_network, last_new_node, last_new_node)
        /\ \A e \in Outside(G_before, last_nodes) :
            /\ e \in DOMAIN contigs_network.weight
            /\ contigs_network.weight[e] = G_before.weight[e]
        /\ \A e \in DOMAIN contigs_network.weight :
            last_new_node \notin e => e \in Outside(G_before, last_nodes)
        /\ TotalWeight(contigs_network, DOMAIN contigs_network.weight)
               = TotalWeight(G_before, DOMAIN G_before.weight)
                 - TotalWeight(G_before, Inside(G_before, last_nodes))

\* A community of two members with an edge between them, merged in a graph
\* that also has an edge between non-members.
C9_Witness ==
    /\ Merged
    /\ \E e \in Inside(G_before, last_nodes) : Cardinality(e) = 2
    /\ Outside(G_before, last_nodes) /= {}
    /\ DOMAIN contigs_network.weight = Outside(G_before, last_nodes)

KnownNormalizations ==
    {"abundance", "length", "RS", "RS_length", "empirical_hit", "theoritical_hit"}

\* C10: when the error for a normalization name that is neither "None" nor
\* a known strategy is raised, no record has been counted, the pre-network
\* file has no line, and the network file has not been created.
C10_UnknownNameStopsBeforeProcessing ==
    (/\ normalization \notin KnownNormalizations \cup {"None"}
     /\ error = "UnboundLocalError") =>
        /\ records = <<>>
        /\ \A name \in Registered : contig_data[name].hit = 0
        /\ pre_net = <<>>
        /\ ~net_created
        /\ net = <<>>

\* C11: with a depth file, create_contig_data returns a registry only when
\* the file has as many data rows as the assembly has contigs; with fewer
\* or with more rows it fails.
C11_DepthRowCountMismatchFails ==
    (/\ fn_pc = "returned"
     /\ fn_args.depth_given
     /\ Len(fn_args.depth_rows) /= Len(fn_args.assembly))
        => fn_result.error /= "none"

\* The contigs of community b's member list.
Members(b) == {bin_list[b][i] : i \in DOMAIN bin_list[b]}

\* The community size of contig k in the contigs data file, and whether
\* its name is in the contigs-of-interest file.
CommunitySize(k) == data_file.rows[k].oc_size
OfInterest(k) == interest_file.given /\ NodeName(k) \in interest_file.names

\* C12: once contigs_bin_network has run its loop over the contigs, a
\* contig is in the member list of its community iff it is not of interest
\* and the size of its community is greater than bin_size, and it is in no
\* other member list.
C12_MemberListsFollowSizeAndInterest ==
    (part_pc = "merge" \/ (part_pc = "failed" /\ part_error = "KeyError: 'id'"))
        => \A k \in ContigIds :
            /\ (\E b \in DOMAIN bin_list : k \in Members(b))
                   <=> (~OfInterest(k) /\ CommunitySize(k) > bin_size)
            /\ \A b \in DOMAIN bin_list :
                   k \in Members(b) => b = data_file.rows[k].oc_id

\* The two registry entries normalize_pair reads.
End1 == fn_args.contig_data[fn_args.prev_pair[1]]
End2 == fn_args.contig_data[fn_args.prev_pair[2]]

\* Both coverages are numbers and one of them is 0.
ZeroCoverage ==
    /\ End1.coverage /= Unset
    /\ End2.coverage /= Unset
    /\ (End1.coverage = 0 \/ End2.coverage = 0)

\* The factor of theoritical_hit is computed, from numbers, and is 0.
ZeroTheoriticalFactor ==
    /\ End1.coverage /= Unset /\ End2.coverage /= Unset
    /\ End1.RS /= Unset /\ End2.RS /= Unset
    /\ End1.coverage * 10 * End1.length * End1.RS
           * End2.coverage * 10 * End2.length * End2.RS = 0

\* C13: normalize_pair returns the weight 0, and raises nothing, for every
\* raw count when the strategy is abundance and the coverage of either
\* contig is 0, and when the strategy is theoritical_hit and its factor
\* is 0.
C13_ZeroFactorGivesZeroWeight ==
    (/\ fn_pc = "returned"
     /\ \/ fn_args.normalization = "abundance" /\ ZeroCoverage
        \/ fn_args.normalization = "theoritical_hit" /\ ZeroTheoriticalFactor)
        => fn_result = Returned(ZeroWeight)

C13_Witness ==
    /\ fn_pc = "returned"
    /\ fn_args.normalization = "abundance"
    /\ fn_args.n_occ > 1
    /\ End1.coverage = 0
    /\ End2.coverage > 0
    /\ fn_result = Returned(ZeroWeight)

\* The record read by this step names a contig that is not registered.
ReadsUnregistered ==
    /\ records' /= records
    /\ LET rec == records'[Len(records')]
       IN  rec[1] \notin Registered \/ rec[2] \notin Registered

\* C14: a record naming an unregistered contig, as either end, stops
\* precompute_network with KeyError at that record: the step that reads it
\* changes no hit counter of contig_data or hit_data, no contact count and
\* nothing of the pre-network file; after it no record is read, and
\* compute_network does not run, so the network file is never written.
C14_Step ==
    /\ ReadsUnregistered =>
        /\ pc' = "failed"
        /\ error' = "KeyError"
        /\ UNCHANGED <<contig_data, hit_data, pre_net, all_contacts_temp,
                       inter_contacts_temp, all_contacts, inter_contacts>>
        /\ ~net_created'
        /\ net' = <<>>
    /\ error = "KeyError" =>
        /\ records' = records
        /\ pc' = "failed"
        /\ ~net_created'
        /\ net' = <<>>

C14_UnregisteredContigIsFatal == [][C14_Step]_vars

\* Two files; a first record that was counted and written, then a record
\* whose first contig is registered and whose second is not.
C14_Witness ==
    /\ pc = "failed"
    /\ error = "KeyError"
    /\ nb_alignment = 2
    /\ Len(records) = 2
    /\ records[1][1] \in Registered
    /\ records[1][2] \in Registered
    /\ records[1][1] /= records[1][2]
    /\ records[2][1] = records[1][1]
    /\ records[2][2] \notin Registered
    /\ contig_data[records[2][1]].hit = 1
    /\ hit_data[records[2][1]].hit[1] = 1
    /\ Len(pre_net) = 1
    /\ ~net_created

=============================================================================
